---- MODULE Spec2Model ----
(***************************************************************************)
(* Model of scripts/bulk_populate_vectors.py: the chunker, the subject     *)
(* normaliser, the topic tagger, process_pdf, the uploader and main.       *)
(*                                                                         *)
(* Strings are run-length encoded: a text is a sequence of runs            *)
(* [ch |-> c, n |-> k] (k >= 1, adjacent runs differ in ch), standing for  *)
(* the string that repeats c k times, run after run.  Indices are Python's *)
(* (0-based, half-open slices, negative indices counted from the end).     *)
(***************************************************************************)
EXTENDS Integers, Sequences, FiniteSets, TLC

VARIABLES
    pc,          \* position of the modelled call / of main
    raw,         \* chunk_text: the text argument as passed
    chunk_size,  \* chunk_text: parameter
    overlap,     \* chunk_text: parameter
    text,        \* chunk_text: the local text after cleaning (line 232)
    start,       \* chunk_text: loop variable
    chunks,      \* chunk_text: the list being built
    iterLog,     \* history: one entry per executed loop body
    folder_name, \* normalize_subject: the argument
    normalized,  \* normalize_subject: the value returned
    pdf,         \* process_pdf: the PDF behind pdf_path
    subject,     \* process_pdf: parameter
    content_type,\* process_pdf: parameter
    records,     \* process_pdf: the list returned
    env,         \* main: what the run finds (environment, argv, stdin, data/)
    table,       \* the remote table csec_content
    pdf_files,   \* main: the (pdf, subject, content_type) triples collected
    all_records, \* main: the records to upload; upsert_records: records
    idx,         \* main: number of PDFs processed so far
    cleared,     \* history: "no", or how the bulk delete of this run ended
    batch_i,     \* upsert_records: loop variable i
    single_j,    \* upsert_records: index of the next record of the fallback loop
    log,         \* history: the inserts submitted, in order
    exit_code,   \* main: -1 while running, else the exit code of the process
    summary      \* main: <<>>, or the counts the summary printed

chunkVars == <<raw, chunk_size, overlap, text, start, chunks, iterLog>>
normVars == <<folder_name, normalized>>
pdfVars == <<pdf, subject, content_type, records>>
mainVars == <<env, table, pdf_files, all_records, idx, cleared, exit_code, summary>>
upVars == <<batch_i, single_j, log>>
vars == <<pc, chunkVars, normVars, pdfVars, mainVars, upVars>>

---------------------------------------------------------------------------
(* Program constants *)
CHUNK_SIZE == 500
CHUNK_OVERLAP == 100
MIN_CHUNK_SIZE == 50
BATCH_SIZE == 50
LOOKBACK == 100
OCR_THRESHOLD == 100

(* Bounds of the model *)
MaxMarks == 3
MaxIter == 8
MaxNameLen == 3

---------------------------------------------------------------------------
(* Strings *)
Max(S) == CHOOSE x \in S : \A y \in S : y <= x
Min(S) == CHOOSE x \in S : \A y \in S : x <= y
MaxOf(a, b) == IF a >= b THEN a ELSE b
MinOf(a, b) == IF a <= b THEN a ELSE b

IsSpace(c) == c \in {" ", "\n", "\t"}

RECURSIVE TLen(_)
TLen(t) == IF t = <<>> THEN 0 ELSE Head(t).n + TLen(Tail(t))

RECURSIVE CharAt(_, _)
CharAt(t, i) ==
    IF i < Head(t).n THEN Head(t).ch ELSE CharAt(Tail(t), i - Head(t).n)

AppendRun(t, c, k) ==
    IF k <= 0 THEN t
    ELSE IF t # <<>> /\ t[Len(t)].ch = c
         THEN [t EXCEPT ![Len(t)].n = @ + k]
         ELSE Append(t, [ch |-> c, n |-> k])

RECURSIVE Cat(_, _)
Cat(t, u) ==
    IF u = <<>> THEN t ELSE Cat(AppendRun(t, Head(u).ch, Head(u).n), Tail(u))

Str(cs) == Cat(<<>>, [k \in 1..Len(cs) |-> [ch |-> cs[k], n |-> 1]])

RECURSIVE Drop(_, _)
Drop(t, k) ==
    IF k <= 0 \/ t = <<>> THEN t
    ELSE IF k >= Head(t).n THEN Drop(Tail(t), k - Head(t).n)
    ELSE <<[ch |-> Head(t).ch, n |-> Head(t).n - k]>> \o Tail(t)

RECURSIVE Take(_, _)
Take(t, k) ==
    IF k <= 0 \/ t = <<>> THEN <<>>
    ELSE IF k >= Head(t).n THEN <<Head(t)>> \o Take(Tail(t), k - Head(t).n)
    ELSE <<[ch |-> Head(t).ch, n |-> k]>>

\* Python's normalisation of a slice index against a length
ClampIdx(i, n) == IF i < 0 THEN MaxOf(i + n, 0) ELSE MinOf(i, n)

\* t[a:b]
PySlice(t, a, b) ==
    LET n == TLen(t)
        lo == ClampIdx(a, n)
        hi == ClampIdx(b, n)
    IN  IF lo >= hi THEN <<>> ELSE Take(Drop(t, lo), hi - lo)

\* number of leading / trailing whitespace characters
LeadWs(t) == IF t # <<>> /\ IsSpace(t[1].ch) THEN t[1].n ELSE 0
RECURSIVE LStripRuns(_)
LStripRuns(t) ==
    IF t # <<>> /\ IsSpace(Head(t).ch) THEN LStripRuns(Tail(t)) ELSE t
RECURSIVE RStripRuns(_)
RStripRuns(t) ==
    IF t # <<>> /\ IsSpace(t[Len(t)].ch)
    THEN RStripRuns(SubSeq(t, 1, Len(t) - 1)) ELSE t

\* str.strip()
Strip(t) == RStripRuns(LStripRuns(t))

\* re.sub(r'\s+', ' ', t)
RECURSIVE CollapseWs(_, _)
CollapseWs(acc, t) ==
    IF t = <<>> THEN acc
    ELSE IF IsSpace(Head(t).ch)
         THEN CollapseWs(IF acc # <<>> /\ acc[Len(acc)].ch = " "
                         THEN acc ELSE Append(acc, [ch |-> " ", n |-> 1]),
                         Tail(t))
         ELSE CollapseWs(AppendRun(acc, Head(t).ch, Head(t).n), Tail(t))

ReSubSpaces(t) == CollapseWs(<<>>, t)

\* whether the character tuple sub occurs in t at index i
MatchAt(t, sub, i) ==
    /\ i >= 0
    /\ i + Len(sub) <= TLen(t)
    /\ \A k \in 1..Len(sub) : CharAt(t, i + k - 1) = sub[k]

\* the index at which each run of t starts
RECURSIVE Offsets(_, _, _)
Offsets(t, k, at) ==
    IF k > Len(t) THEN <<>> ELSE <<at>> \o Offsets(t, k + 1, at + t[k].n)

\* the indices i with lo <= i and i + Len(sub) <= hi at which the non-empty
\* sub occurs in t; an occurrence starts in a run of sub's first character
Occurrences(t, sub, lo, hi) ==
    LET off == Offsets(t, 1, 0)
    IN  UNION { {i \in MaxOf(lo, off[k])..MinOf(hi - Len(sub), off[k] + t[k].n - 1) :
                    MatchAt(t, sub, i)} :
                k \in {j \in 1..Len(t) : t[j].ch = sub[1]} }

\* str.rfind(sub, a, b): the highest index in t[a:b] where sub occurs, or -1
RFind(t, sub, a, b) ==
    LET n == TLen(t)
        hits == Occurrences(t, sub, ClampIdx(a, n), ClampIdx(b, n))
    IN  IF hits = {} THEN -1 ELSE Max(hits)

---------------------------------------------------------------------------
(* chunk_text *)

\* the candidate sentence ends, in the order the loop of line 244 tries them
PUNCTS == << <<".", " ">>, <<".", "\n">>, <<"?", " ">>, <<"!", "\n">> >>

SearchStartMut(s, e) == s
SearchStart(s, e) == MaxOf(e - LOOKBACK, s)

\* lines 244-248: the first punctuation of PUNCTS whose last occurrence in
\* the lookback window lies after start moves end to just behind it
RECURSIVE CutEnd(_, _, _, _)
CutEnd(t, s, e, k) ==
    IF k > Len(PUNCTS) THEN e
    ELSE LET last_period == RFind(t, PUNCTS[k], SearchStart(s, e), e)
         IN  IF last_period > s THEN last_period + 1 ELSE CutEnd(t, s, e, k + 1)

\* lines 238-248: the end of the chunk that starts at s
ChunkEnd(t, s, cs) ==
    LET e == s + cs
    IN  IF e < TLen(t) THEN CutEnd(t, s, e, 1) ELSE e

KeepChunkMut(chunk) == TLen(chunk) >= 1
KeepChunk(chunk) == TLen(chunk) >= MIN_CHUNK_SIZE

NextStartMut(e, ov) == e - ov - 1
NextStart(e, ov) == e - ov

\* line 228
TooShort(t) == t = <<>> \/ TLen(Strip(t)) < MIN_CHUNK_SIZE

\* line 232
CleanText(t) == Strip(ReSubSpaces(t))

\* One execution of the loop body (lines 238-256) from start s with the
\* chunks cks collected so far.
ChunkBody(t, s, cks, cs, ov) ==
    LET e == ChunkEnd(t, s, cs)
        chunk == Strip(PySlice(t, s, e))
        s2 == NextStart(e, ov)
        lo == ClampIdx(s, TLen(t)) + LeadWs(PySlice(t, s, e))
    IN  [end |-> e,
         chunk |-> chunk,
         lo |-> lo,
         hi |-> lo + TLen(chunk),
         kept |-> KeepChunk(chunk),
         chunks |-> IF KeepChunk(chunk) THEN Append(cks, chunk) ELSE cks,
         start |-> s2,
         brk |-> s2 >= TLen(t)]

\* chunk_text as a function, for callers (terminates for the default
\* parameters, which are the only ones process_pdf uses)
RECURSIVE ChunkLoop(_, _, _, _, _)
ChunkLoop(t, s, cks, cs, ov) ==
    IF ~(s < TLen(t)) THEN cks
    ELSE LET b == ChunkBody(t, s, cks, cs, ov)
         IN  IF b.brk THEN b.chunks ELSE ChunkLoop(t, b.start, b.chunks, cs, ov)

chunk_text(t, cs, ov) ==
    IF TooShort(t) THEN <<>> ELSE ChunkLoop(CleanText(t), 0, <<>>, cs, ov)

---------------------------------------------------------------------------
(* Inputs of the chunker specification *)

Lens == {0, 49, 50, 120, 520, 1200, 1230}
MarkPos == {401, 460, 703, 1005}
MarkKinds == { <<".", " ">>, <<"?", " ">>, <<"!", " ">>, <<".", "\n">> }
Leads == {0, 2, 600}
Params == { <<500, 100>>, <<300, 50>>, <<100, 100>>, <<60, 100>> }

\* the character at index i of the text with lead leading blanks and the
\* two-character marks m (a function from positions to kinds), else "x"
CharOf(i, lead, m) ==
    IF i < lead THEN " "
    ELSE IF i \in DOMAIN m THEN m[i][1]
    ELSE IF (i - 1) \in DOMAIN m THEN m[i - 1][2]
    ELSE "x"

RECURSIVE RunsFrom(_, _, _, _, _)
RunsFrom(acc, a, bps, lead, m) ==
    IF bps = {} THEN acc
    ELSE LET b == Min(bps)
         IN  RunsFrom(AppendRun(acc, CharOf(a, lead, m), b - a), b,
                      bps \ {b}, lead, m)

MkText(L, lead, m) ==
    LET cuts == {lead, L} \cup UNION {{p, p + 1, p + 2} : p \in DOMAIN m}
        bps == {b \in cuts : 0 < b /\ b <= L}
    IN  RunsFrom(<<>>, 0, bps, lead, m)

MarkSets == {S \in SUBSET MarkPos : Cardinality(S) <= MaxMarks}

IdleNorm == folder_name = <<>> /\ normalized = <<>>
IdlePdf ==
    /\ pdf = [name |-> "none"] /\ subject = <<>> /\ content_type = "question"
    /\ records = <<>>

IdleMain ==
    /\ env = [creds |-> TRUE] /\ table = [old |-> {}, new |-> 0]
    /\ pdf_files = <<>> /\ all_records = <<>> /\ idx = 0 /\ cleared = "no"
    /\ exit_code = -1 /\ summary = <<>>
IdleUpsert == batch_i = 0 /\ single_j = 0 /\ log = <<>>

InitChunk ==
    /\ IdleNorm
    /\ IdlePdf
    /\ IdleMain
    /\ IdleUpsert
    /\ \E L \in Lens, lead \in Leads, S \in MarkSets :
         \E m \in [S -> MarkKinds], p \in Params :
            /\ p = <<CHUNK_SIZE, CHUNK_OVERLAP>> \/ Cardinality(S) <= 1
            /\ raw = MkText(L, lead, m)
            /\ chunk_size = p[1]
            /\ overlap = p[2]
    /\ text = <<>>
    /\ start = 0
    /\ chunks = <<>>
    /\ iterLog = <<>>
    /\ pc = "call"

\* lines 228-235
ChunkCall ==
    /\ pc = "call"
    /\ IF TooShort(raw)
       THEN /\ pc' = "done"
            /\ UNCHANGED text
       ELSE /\ text' = CleanText(raw)
            /\ pc' = "loop"
    /\ start' = 0
    /\ chunks' = <<>>
    /\ UNCHANGED <<raw, chunk_size, overlap, iterLog, normVars, pdfVars, mainVars, upVars>>

\* lines 237-256: the loop test and one execution of the body
ChunkStep ==
    /\ pc = "loop"
    /\ Len(iterLog) < MaxIter
    /\ IF start < TLen(text)
       THEN LET b == ChunkBody(text, start, chunks, chunk_size, overlap)
            IN  /\ chunks' = b.chunks
                /\ start' = b.start
                /\ iterLog' = Append(iterLog,
                        [start |-> start, wend |-> start + chunk_size,
                         end |-> b.end, kept |-> b.kept,
                         lo |-> b.lo, hi |-> b.hi])
                /\ pc' = IF b.brk THEN "done" ELSE "loop"
       ELSE /\ pc' = "done"
            /\ UNCHANGED <<start, chunks, iterLog>>
    /\ UNCHANGED <<raw, chunk_size, overlap, text, normVars, pdfVars, mainVars, upVars>>

NextChunk == ChunkCall \/ ChunkStep

SpecChunk == InitChunk /\ [][NextChunk]_vars

---------------------------------------------------------------------------
(* Properties of the chunker *)

Defaults == chunk_size = CHUNK_SIZE /\ overlap = CHUNK_OVERLAP
KeptLog == SelectSeq(iterLog, LAMBDA r : r.kept)
\* number of characters of the text that chunks k and k+1 have in common
Shared(k) == MaxOf(0, KeptLog[k].hi - KeptLog[k + 1].lo)
SomeCut == \E k \in 1..Len(iterLog) : iterLog[k].end # iterLog[k].wend

\* C1: every chunk of the list chunk_text builds (and so returns) has at
\* least MIN_CHUNK_SIZE characters, for every text, chunk_size and overlap.
C1_MinChunkLen ==
    \A k \in 1..Len(chunks) : TLen(chunks[k]) >= MIN_CHUNK_SIZE

\* a run that returned chunks after it had dropped a fragment that was too short
C1_Witness ==
    /\ pc = "done"
    /\ chunks # <<>>
    /\ \E k \in 1..Len(iterLog) :
          ~iterLog[k].kept /\ iterLog[k].hi > iterLog[k].lo

\* C2 as stated: a text of 1200 characters, chunked with the defaults, gives
\* exactly 3 chunks, consecutive ones sharing at most 100 characters.
C2_Original ==
    (pc = "done" /\ TLen(raw) = 1200 /\ Defaults) =>
        /\ Len(chunks) = 3
        /\ \A k \in 1..(Len(KeptLog) - 1) : Shared(k) <= CHUNK_OVERLAP

\* C2 as amended: a text of 1200 characters, chunked with the defaults, gives
\* at most 4 chunks, exactly 3 when cleaning leaves all 1200 characters and no
\* chunk end is moved back to a sentence boundary; consecutive chunks share
\* at most 100 characters.
C2_Amended ==
    (pc = "done" /\ TLen(raw) = 1200 /\ Defaults) =>
        /\ Len(chunks) <= 4
        /\ (TLen(text) = 1200 /\ ~SomeCut) => Len(chunks) = 3
        /\ \A k \in 1..(Len(KeptLog) - 1) : Shared(k) <= CHUNK_OVERLAP

\* a 1200-character text returned as 3 chunks that overlap by exactly 100
C2_Witness ==
    /\ pc = "done" /\ TLen(raw) = 1200 /\ Defaults
    /\ TLen(text) = 1200 /\ ~SomeCut
    /\ Len(chunks) = 3
    /\ Shared(1) = CHUNK_OVERLAP /\ Shared(2) = CHUNK_OVERLAP

\* the sentence ends (terminal mark, then a space) that lie in the lookback
\* window of the iteration logged as r
TermHits(r) ==
    {i \in SearchStart(r.start, r.wend)..(r.wend - 2) :
        /\ i >= 0 /\ i + 1 < TLen(text)
        /\ CharAt(text, i) \in {".", "?", "!"}
        /\ CharAt(text, i + 1) = " "}

\* C8 as stated: when the window of a chunk ends before the end of the text
\* and its lookback window holds a terminal mark ('.', '?' or '!') followed by
\* a space, the chunk is cut just behind the last such mark of the window.
C8_NearestTerminal ==
    \A k \in 1..Len(iterLog) :
        LET r == iterLog[k]
        IN  (r.start >= 0 /\ r.wend < TLen(text) /\ TermHits(r) # {}) =>
                r.end = Max(TermHits(r)) + 1

\* C10: with the default parameters every execution of the loop body, also
\* one that moves the end back to a sentence boundary, strictly increases
\* start, which stays below the length of the text while the loop goes on:
\* the loop ends after finitely many iterations (and never by the model's
\* iteration bound).
C10_Terminates ==
    [][(pc = "loop" /\ Defaults) =>
          /\ start' > start
          /\ Len(iterLog') <= Len(iterLog) + 1
          /\ pc' = "loop" => (start' < TLen(text) /\ Len(iterLog') < MaxIter)
          /\ pc' \in {"loop", "done"}]_vars

\* a finished default run in which an end was moved back to a sentence boundary
C10_Witness ==
    /\ pc = "done" /\ Defaults
    /\ \E k \in 1..Len(iterLog) : iterLog[k].end < iterLog[k].wend

---------------------------------------------------------------------------
(* normalize_subject.  Folder names and subject names are short: they are
   plain sequences of characters. *)

UPPERS == <<"A", "B", "C", "D", "E", "F", "G", "H", "I", "J", "K", "L", "M",
            "N", "O", "P", "Q", "R", "S", "T", "U", "V", "W", "X", "Y", "Z">>
LOWERS == <<"a", "b", "c", "d", "e", "f", "g", "h", "i", "j", "k", "l", "m",
            "n", "o", "p", "q", "r", "s", "t", "u", "v", "w", "x", "y", "z">>
IsUpper(c) == \E k \in 1..26 : UPPERS[k] = c
IsLower(c) == \E k \in 1..26 : LOWERS[k] = c
IsCased(c) == IsUpper(c) \/ IsLower(c)
Lower(c) == IF IsUpper(c) THEN LOWERS[CHOOSE k \in 1..26 : UPPERS[k] = c] ELSE c
Upper(c) == IF IsLower(c) THEN UPPERS[CHOOSE k \in 1..26 : LOWERS[k] = c] ELSE c

\* str.lower()
FLower(s) == [k \in 1..Len(s) |-> Lower(s[k])]

\* str.strip()
RECURSIVE FLStrip(_)
FLStrip(s) == IF s # <<>> /\ IsSpace(Head(s)) THEN FLStrip(Tail(s)) ELSE s
RECURSIVE FRStrip(_)
FRStrip(s) ==
    IF s # <<>> /\ IsSpace(s[Len(s)]) THEN FRStrip(SubSeq(s, 1, Len(s) - 1)) ELSE s
FStrip(s) == FRStrip(FLStrip(s))

\* str.replace(a, b) for single characters a, b
FReplace(s, a, b) == [k \in 1..Len(s) |-> IF s[k] = a THEN b ELSE s[k]]

\* sub in s
FContains(sub, s) ==
    \E i \in 0..(Len(s) - Len(sub)) : \A k \in 1..Len(sub) : s[i + k] = sub[k]

\* str.title(): a cased character is upper-cased when it follows an uncased
\* one (or starts the string) and lower-cased otherwise
FTitle(s) ==
    [k \in 1..Len(s) |->
        IF k = 1 \/ ~IsCased(s[k - 1]) THEN Upper(s[k]) ELSE Lower(s[k])]

\* lines 56-109, in the order of the dictionary
SUBJECT_ALIASES == <<
    <<<<"m", "a", "t", "h">>,
      <<"M", "a", "t", "h", "e", "m", "a", "t", "i", "c", "s">>>>,
    <<<<"m", "a", "t", "h", "s">>,
      <<"M", "a", "t", "h", "e", "m", "a", "t", "i", "c", "s">>>>,
    <<<<"m", "a", "t", "h", "e", "m", "a", "t", "i", "c", "s">>,
      <<"M", "a", "t", "h", "e", "m", "a", "t", "i", "c", "s">>>>,
    <<<<"b", "i", "o">>,
      <<"B", "i", "o", "l", "o", "g", "y">>>>,
    <<<<"b", "i", "o", "l", "o", "g", "y">>,
      <<"B", "i", "o", "l", "o", "g", "y">>>>,
    <<<<"c", "h", "e", "m">>,
      <<"C", "h", "e", "m", "i", "s", "t", "r", "y">>>>,
    <<<<"c", "h", "e", "m", "i", "s", "t", "r", "y">>,
      <<"C", "h", "e", "m", "i", "s", "t", "r", "y">>>>,
    <<<<"p", "h", "y", "s">>,
      <<"P", "h", "y", "s", "i", "c", "s">>>>,
    <<<<"p", "h", "y", "s", "i", "c", "s">>,
      <<"P", "h", "y", "s", "i", "c", "s">>>>,
    <<<<"e", "n", "g", "l", "i", "s", "h", "-", "a">>,
      <<"E", "n", "g", "l", "i", "s", "h", " ", "A">>>>,
    <<<<"e", "n", "g", "l", "i", "s", "h", "-", "b">>,
      <<"E", "n", "g", "l", "i", "s", "h", " ", "B">>>>,
    <<<<"e", "n", "g", "l", "i", "s", "h", " ", "a">>,
      <<"E", "n", "g", "l", "i", "s", "h", " ", "A">>>>,
    <<<<"e", "n", "g", "l", "i", "s", "h", " ", "b">>,
      <<"E", "n", "g", "l", "i", "s", "h", " ", "B">>>>,
    <<<<"e", "n", "g", "l", "i", "s", "h", "a">>,
      <<"E", "n", "g", "l", "i", "s", "h", " ", "A">>>>,
    <<<<"e", "n", "g", "l", "i", "s", "h", "b">>,
      <<"E", "n", "g", "l", "i", "s", "h", " ", "B">>>>,
    <<<<"h", "i", "s", "t", "o", "r", "y">>,
      <<"C", "a", "r", "i", "b", "b", "e", "a", "n", " ", "H", "i", "s", "t", "o", "r", "y">>>>,
    <<<<"c", "a", "r", "i", "b", "b", "e", "a", "n", "-", "h", "i", "s", "t", "o", "r", "y">>,
      <<"C", "a", "r", "i", "b", "b", "e", "a", "n", " ", "H", "i", "s", "t", "o", "r", "y">>>>,
    <<<<"c", "a", "r", "i", "b", "b", "e", "a", "n", " ", "h", "i", "s", "t", "o", "r", "y">>,
      <<"C", "a", "r", "i", "b", "b", "e", "a", "n", " ", "H", "i", "s", "t", "o", "r", "y">>>>,
    <<<<"e", "c", "o", "n", "o", "m", "i", "c", "s">>,
      <<"E", "c", "o", "n", "o", "m", "i", "c", "s">>>>,
    <<<<"e", "c", "o", "n">>,
      <<"E", "c", "o", "n", "o", "m", "i", "c", "s">>>>,
    <<<<"g", "e", "o", "g", "r", "a", "p", "h", "y">>,
      <<"G", "e", "o", "g", "r", "a", "p", "h", "y">>>>,
    <<<<"g", "e", "o">>,
      <<"G", "e", "o", "g", "r", "a", "p", "h", "y">>>>,
    <<<<"p", "o", "b">>,
      <<"P", "r", "i", "n", "c", "i", "p", "l", "e", "s", " ", "o", "f", " ", "B", "u", "s", "i", "n", "e", "s", "s">>>>,
    <<<<"p", "r", "i", "n", "c", "i", "p", "l", "e", "s", "-", "o", "f", "-", "b", "u", "s", "i", "n", "e", "s", "s">>,
      <<"P", "r", "i", "n", "c", "i", "p", "l", "e", "s", " ", "o", "f", " ", "B", "u", "s", "i", "n", "e", "s", "s">>>>,
    <<<<"p", "o", "a">>,
      <<"P", "r", "i", "n", "c", "i", "p", "l", "e", "s", " ", "o", "f", " ", "A", "c", "c", "o", "u", "n", "t", "s">>>>,
    <<<<"p", "r", "i", "n", "c", "i", "p", "l", "e", "s", "-", "o", "f", "-", "a", "c", "c", "o", "u", "n", "t", "s">>,
      <<"P", "r", "i", "n", "c", "i", "p", "l", "e", "s", " ", "o", "f", " ", "A", "c", "c", "o", "u", "n", "t", "s">>>>,
    <<<<"i", "t">>,
      <<"I", "n", "f", "o", "r", "m", "a", "t", "i", "o", "n", " ", "T", "e", "c", "h", "n", "o", "l", "o", "g", "y">>>>,
    <<<<"i", "n", "f", "o", "r", "m", "a", "t", "i", "o", "n", "-", "t", "e", "c", "h", "n", "o", "l", "o", "g", "y">>,
      <<"I", "n", "f", "o", "r", "m", "a", "t", "i", "o", "n", " ", "T", "e", "c", "h", "n", "o", "l", "o", "g", "y">>>>,
    <<<<"c", "s">>,
      <<"C", "o", "m", "p", "u", "t", "e", "r", " ", "S", "c", "i", "e", "n", "c", "e">>>>,
    <<<<"s", "o", "c", "i", "a", "l", "-", "s", "t", "u", "d", "i", "e", "s">>,
      <<"S", "o", "c", "i", "a", "l", " ", "S", "t", "u", "d", "i", "e", "s">>>>,
    <<<<"s", "p", "a", "n", "i", "s", "h">>,
      <<"S", "p", "a", "n", "i", "s", "h">>>>,
    <<<<"f", "r", "e", "n", "c", "h">>,
      <<"F", "r", "e", "n", "c", "h">>>>,
    <<<<"i", "n", "t", "e", "g", "r", "a", "t", "e", "d", "-", "s", "c", "i", "e", "n", "c", "e">>,
      <<"I", "n", "t", "e", "g", "r", "a", "t", "e", "d", " ", "S", "c", "i", "e", "n", "c", "e">>>>,
    <<<<"a", "g", "r", "i", "c", "u", "l", "t", "u", "r", "a", "l", "-", "s", "c", "i", "e", "n", "c", "e">>,
      <<"A", "g", "r", "i", "c", "u", "l", "t", "u", "r", "a", "l", " ", "S", "c", "i", "e", "n", "c", "e">>>>,
    <<<<"h", "u", "m", "a", "n", "-", "a", "n", "d", "-", "s", "o", "c", "i", "a", "l", "-", "b", "i", "o", "l", "o", "g", "y">>,
      <<"H", "u", "m", "a", "n", " ", "a", "n", "d", " ", "S", "o", "c", "i", "a", "l", " ", "B", "i", "o", "l", "o", "g", "y">>>>,
    <<<<"h", "s", "b">>,
      <<"H", "u", "m", "a", "n", " ", "a", "n", "d", " ", "S", "o", "c", "i", "a", "l", " ", "B", "i", "o", "l", "o", "g", "y">>>>,
    <<<<"v", "i", "s", "u", "a", "l", "-", "a", "r", "t", "s">>,
      <<"V", "i", "s", "u", "a", "l", " ", "A", "r", "t", "s">>>>,
    <<<<"m", "u", "s", "i", "c">>,
      <<"M", "u", "s", "i", "c">>>>,
    <<<<"p", "h", "y", "s", "i", "c", "a", "l", "-", "e", "d", "u", "c", "a", "t", "i", "o", "n">>,
      <<"P", "h", "y", "s", "i", "c", "a", "l", " ", "E", "d", "u", "c", "a", "t", "i", "o", "n">>>>,
    <<<<"p", "e">>,
      <<"P", "h", "y", "s", "i", "c", "a", "l", " ", "E", "d", "u", "c", "a", "t", "i", "o", "n">>>>,
    <<<<"o", "f", "f", "i", "c", "e", "-", "a", "d", "m", "i", "n", "i", "s", "t", "r", "a", "t", "i", "o", "n">>,
      <<"O", "f", "f", "i", "c", "e", " ", "A", "d", "m", "i", "n", "i", "s", "t", "r", "a", "t", "i", "o", "n">>>>,
    <<<<"t", "h", "e", "a", "t", "r", "e", "-", "a", "r", "t", "s">>,
      <<"T", "h", "e", "a", "t", "r", "e", " ", "A", "r", "t", "s">>>>,
    <<<<"e", "l", "e", "c", "t", "r", "o", "n", "i", "c", "-", "d", "o", "c", "u", "m", "e", "n", "t", "-", "p", "r", "e", "p", "a", "r", "a", "t", "i", "o", "n">>,
      <<"E", "l", "e", "c", "t", "r", "o", "n", "i", "c", " ", "D", "o", "c", "u", "m", "e", "n", "t", " ", "P", "r", "e", "p", "a", "r", "a", "t", "i", "o", "n">>>>,
    <<<<"e", "d", "p", "m">>,
      <<"E", "l", "e", "c", "t", "r", "o", "n", "i", "c", " ", "D", "o", "c", "u", "m", "e", "n", "t", " ", "P", "r", "e", "p", "a", "r", "a", "t", "i", "o", "n">>>>,
    <<<<"f", "o", "o", "d", "-", "a", "n", "d", "-", "n", "u", "t", "r", "i", "t", "i", "o", "n">>,
      <<"F", "o", "o", "d", " ", "a", "n", "d", " ", "N", "u", "t", "r", "i", "t", "i", "o", "n">>>>,
    <<<<"h", "o", "m", "e", "-", "e", "c", "o", "n", "o", "m", "i", "c", "s">>,
      <<"H", "o", "m", "e", " ", "E", "c", "o", "n", "o", "m", "i", "c", "s">>>>,
    <<<<"t", "e", "x", "t", "i", "l", "e", "s", "-", "c", "l", "o", "t", "h", "i", "n", "g", "-", "a", "n", "d", "-", "f", "a", "s", "h", "i", "o", "n">>,
      <<"T", "e", "x", "t", "i", "l", "e", "s", " ", "C", "l", "o", "t", "h", "i", "n", "g", " ", "a", "n", "d", " ", "F", "a", "s", "h", "i", "o", "n">>>>,
    <<<<"t", "e", "c", "h", "n", "i", "c", "a", "l", "-", "d", "r", "a", "w", "i", "n", "g">>,
      <<"T", "e", "c", "h", "n", "i", "c", "a", "l", " ", "D", "r", "a", "w", "i", "n", "g">>>>,
    <<<<"b", "u", "i", "l", "d", "i", "n", "g", "-", "t", "e", "c", "h", "n", "o", "l", "o", "g", "y">>,
      <<"B", "u", "i", "l", "d", "i", "n", "g", " ", "T", "e", "c", "h", "n", "o", "l", "o", "g", "y">>>>,
    <<<<"e", "l", "e", "c", "t", "r", "i", "c", "a", "l", "-", "a", "n", "d", "-", "e", "l", "e", "c", "t", "r", "o", "n", "i", "c", "-", "t", "e", "c", "h", "n", "o", "l", "o", "g", "y">>,
      <<"E", "l", "e", "c", "t", "r", "i", "c", "a", "l", " ", "a", "n", "d", " ", "E", "l", "e", "c", "t", "r", "o", "n", "i", "c", " ", "T", "e", "c", "h", "n", "o", "l", "o", "g", "y">>>>,
    <<<<"m", "e", "c", "h", "a", "n", "i", "c", "a", "l", "-", "e", "n", "g", "i", "n", "e", "e", "r", "i", "n", "g", "-", "t", "e", "c", "h", "n", "o", "l", "o", "g", "y">>,
      <<"M", "e", "c", "h", "a", "n", "i", "c", "a", "l", " ", "E", "n", "g", "i", "n", "e", "e", "r", "i", "n", "g", " ", "T", "e", "c", "h", "n", "o", "l", "o", "g", "y">>>>,
    <<<<"r", "e", "l", "i", "g", "i", "o", "u", "s", "-", "e", "d", "u", "c", "a", "t", "i", "o", "n">>,
      <<"R", "e", "l", "i", "g", "i", "o", "u", "s", " ", "E", "d", "u", "c", "a", "t", "i", "o", "n">>>>
>>

\* line 135
SubjectKey(fn) == FReplace(FReplace(FStrip(FLower(fn)), "_", "-"), " ", "-")

\* line 143
PartialMatchMut(alias, key) == FContains(alias, key)
PartialMatch(alias, key) == FContains(alias, key) \/ FContains(key, alias)

\* line 147
TitleFallback(fn) == FTitle(FReplace(FReplace(fn, "-", " "), "_", " "))

normalize_subject(fn) ==
    LET key == SubjectKey(fn)
        N == Len(SUBJECT_ALIASES)
        direct == {k \in 1..N : SUBJECT_ALIASES[k][1] = key}
        partial == {k \in 1..N : PartialMatch(SUBJECT_ALIASES[k][1], key)}
    IN  IF direct # {} THEN SUBJECT_ALIASES[Min(direct)][2]
        ELSE IF partial # {} THEN SUBJECT_ALIASES[Min(partial)][2]
        ELSE TitleFallback(fn)

NameChars == {"-", "_", " ", "i", "T", "x", "9"}
Names == UNION {[1..n -> NameChars] : n \in 0..MaxNameLen}

IdleChunk ==
    /\ raw = <<>> /\ chunk_size = CHUNK_SIZE /\ overlap = CHUNK_OVERLAP
    /\ text = <<>> /\ start = 0 /\ chunks = <<>> /\ iterLog = <<>>

InitNorm ==
    /\ IdleChunk
    /\ IdlePdf
    /\ IdleMain
    /\ IdleUpsert
    /\ folder_name \in Names
    /\ normalized = <<>>
    /\ pc = "call"

\* lines 133-147
NormalizeCall ==
    /\ pc = "call"
    /\ normalized' = normalize_subject(folder_name)
    /\ pc' = "done"
    /\ UNCHANGED <<folder_name, chunkVars, pdfVars, mainVars, upVars>>

NextNorm == NormalizeCall

SpecNorm == InitNorm /\ [][NextNorm]_vars

\* C7: normalize_subject returns a non-empty name for every input string,
\* the empty string and the strings made only of separators included.
C7_Total == pc = "done" => Len(normalized) > 0

SeparatorsOnly(s) == \A k \in 1..Len(s) : s[k] \in {"-", "_", " "}

\* a separators-only folder name that reached the title-case fallback
C7_Witness ==
    /\ pc = "done"
    /\ folder_name # <<>>
    /\ SeparatorsOnly(folder_name)
    /\ normalized = TitleFallback(folder_name)

---------------------------------------------------------------------------
(* Text extraction, topic tagging and process_pdf.  A PDF is what the
   libraries make of it: whether opening/reading it raises, the text of each
   page, whether the OCR libraries are missing, raise or work, the text OCR
   reads from each page, and whether the embedding model raises on it. *)

DIGITS == <<"1", "2", "3", "4", "5", "6", "7", "8", "9">>

\* f"[Page {k}]\n"
PageHeader(k) == Str(<<"[", "P", "a", "g", "e", " ", DIGITS[k], "]", "\n">>)

\* lines 177-186 and 209-216: the non-blank pages, each under its header,
\* joined by two newlines
RECURSIVE JoinPages(_, _, _)
JoinPages(acc, pages, k) ==
    IF k > Len(pages) THEN acc
    ELSE IF Strip(pages[k]) = <<>> THEN JoinPages(acc, pages, k + 1)
    ELSE JoinPages(Cat(Cat(IF acc = <<>> THEN acc ELSE AppendRun(acc, "\n", 2),
                           PageHeader(k)), pages[k]),
                   pages, k + 1)

\* lines 201-223: both except clauses return ""
try_ocr_extraction(p) ==
    IF p.ocr = "ok" THEN JoinPages(<<>>, p.ocrPages, 1) ELSE <<>>

\* lines 173-198 with the except clause of line 196 left out
ExtractNoCatch(p) ==
    IF p.read = "raise" THEN [raised |-> TRUE, text |-> <<>>]
    ELSE LET full_text == JoinPages(<<>>, p.pages, 1)
             ocr_text == try_ocr_extraction(p)
         IN  [raised |-> FALSE,
              text |-> IF /\ TLen(Strip(full_text)) < OCR_THRESHOLD
                          /\ ocr_text # <<>>
                          /\ TLen(ocr_text) > TLen(full_text)
                       THEN ocr_text ELSE full_text]

\* lines 173-198
extract_text_from_pdf(p) ==
    IF p.read = "raise" THEN [raised |-> FALSE, text |-> <<>>]
    ELSE LET full_text == JoinPages(<<>>, p.pages, 1)
             ocr_text == try_ocr_extraction(p)
         IN  [raised |-> FALSE,
              text |-> IF /\ TLen(Strip(full_text)) < OCR_THRESHOLD
                          /\ ocr_text # <<>>
                          /\ TLen(ocr_text) > TLen(full_text)
                       THEN ocr_text ELSE full_text]

\* lines 267-304: per subject, the topics in order, each with its keywords
topic_keywords == <<
    <<<<"M", "a", "t", "h", "e", "m", "a", "t", "i", "c", "s">>, <<
        <<"algebra", <<<<"a", "l", "g", "e", "b", "r", "a">>,
            <<"e", "q", "u", "a", "t", "i", "o", "n">>,
            <<"p", "o", "l", "y", "n", "o", "m", "i", "a", "l">>,
            <<"f", "a", "c", "t", "o", "r", "i">>,
            <<"q", "u", "a", "d", "r", "a", "t", "i", "c">>>>>>,
        <<"geometry", <<<<"g", "e", "o", "m", "e", "t", "r", "y">>,
            <<"t", "r", "i", "a", "n", "g", "l", "e">>,
            <<"c", "i", "r", "c", "l", "e">>,
            <<"a", "n", "g", "l", "e">>,
            <<"p", "o", "l", "y", "g", "o", "n">>,
            <<"t", "h", "e", "o", "r", "e", "m">>>>>>,
        <<"trigonometry", <<<<"t", "r", "i", "g", "o", "n", "o", "m", "e", "t", "r", "y">>,
            <<"s", "i", "n", "e">>,
            <<"c", "o", "s", "i", "n", "e">>,
            <<"t", "a", "n", "g", "e", "n", "t">>,
            <<"p", "y", "t", "h", "a", "g", "o", "r">>>>>>,
        <<"statistics", <<<<"s", "t", "a", "t", "i", "s", "t", "i", "c", "s">>,
            <<"m", "e", "a", "n">>,
            <<"m", "e", "d", "i", "a", "n">>,
            <<"m", "o", "d", "e">>,
            <<"p", "r", "o", "b", "a", "b", "i", "l", "i", "t", "y">>,
            <<"d", "a", "t", "a">>>>>>,
        <<"calculus", <<<<"c", "a", "l", "c", "u", "l", "u", "s">>,
            <<"d", "i", "f", "f", "e", "r", "e", "n", "t", "i", "a", "t">>,
            <<"i", "n", "t", "e", "g", "r", "a", "t">>,
            <<"d", "e", "r", "i", "v", "a", "t", "i", "v", "e">>>>>>,
        <<"sets", <<<<"s", "e", "t", "s">>,
            <<"v", "e", "n", "n", " ", "d", "i", "a", "g", "r", "a", "m">>,
            <<"u", "n", "i", "o", "n">>,
            <<"i", "n", "t", "e", "r", "s", "e", "c", "t", "i", "o", "n">>>>>>,
        <<"functions", <<<<"f", "u", "n", "c", "t", "i", "o", "n">>,
            <<"d", "o", "m", "a", "i", "n">>,
            <<"r", "a", "n", "g", "e">>,
            <<"m", "a", "p", "p", "i", "n", "g">>>>>>,
        <<"vectors", <<<<"v", "e", "c", "t", "o", "r">>,
            <<"s", "c", "a", "l", "a", "r">>,
            <<"m", "a", "g", "n", "i", "t", "u", "d", "e">>,
            <<"d", "i", "r", "e", "c", "t", "i", "o", "n">>>>>>,
        <<"matrices", <<<<"m", "a", "t", "r", "i", "x">>,
            <<"m", "a", "t", "r", "i", "c", "e", "s">>,
            <<"d", "e", "t", "e", "r", "m", "i", "n", "a", "n", "t">>>>>>,
        <<"mensuration", <<<<"a", "r", "e", "a">>,
            <<"v", "o", "l", "u", "m", "e">>,
            <<"s", "u", "r", "f", "a", "c", "e", " ", "a", "r", "e", "a">>,
            <<"p", "e", "r", "i", "m", "e", "t", "e", "r">>>>>>>>>>,
    <<<<"B", "i", "o", "l", "o", "g", "y">>, <<
        <<"cells", <<<<"c", "e", "l", "l">>,
            <<"m", "e", "m", "b", "r", "a", "n", "e">>,
            <<"n", "u", "c", "l", "e", "u", "s">>,
            <<"m", "i", "t", "o", "c", "h", "o", "n", "d", "r", "i">>,
            <<"c", "y", "t", "o", "p", "l", "a", "s", "m">>>>>>,
        <<"genetics", <<<<"g", "e", "n", "e">>,
            <<"d", "n", "a">>,
            <<"c", "h", "r", "o", "m", "o", "s", "o", "m", "e">>,
            <<"h", "e", "r", "e", "d", "i", "t">>,
            <<"m", "u", "t", "a", "t", "i", "o", "n">>>>>>,
        <<"ecology", <<<<"e", "c", "o", "l", "o", "g", "y">>,
            <<"e", "c", "o", "s", "y", "s", "t", "e", "m">>,
            <<"f", "o", "o", "d", " ", "c", "h", "a", "i", "n">>,
            <<"h", "a", "b", "i", "t", "a", "t">>,
            <<"b", "i", "o", "d", "i", "v", "e", "r", "s", "i", "t", "y">>>>>>,
        <<"human biology", <<<<"h", "u", "m", "a", "n", " ", "b", "o", "d", "y">>,
            <<"o", "r", "g", "a", "n">>,
            <<"d", "i", "g", "e", "s", "t">>,
            <<"c", "i", "r", "c", "u", "l", "a", "t">>,
            <<"r", "e", "s", "p", "i", "r">>>>>>,
        <<"plant biology", <<<<"p", "h", "o", "t", "o", "s", "y", "n", "t", "h", "e", "s", "i", "s">>,
            <<"p", "l", "a", "n", "t">>,
            <<"c", "h", "l", "o", "r", "o", "p", "h", "y", "l", "l">>,
            <<"t", "r", "a", "n", "s", "p", "i", "r">>>>>>,
        <<"evolution", <<<<"e", "v", "o", "l", "u", "t", "i", "o", "n">>,
            <<"n", "a", "t", "u", "r", "a", "l", " ", "s", "e", "l", "e", "c", "t", "i", "o", "n">>,
            <<"a", "d", "a", "p", "t", "a", "t", "i", "o", "n">>,
            <<"s", "p", "e", "c", "i", "e", "s">>>>>>>>>>,
    <<<<"C", "h", "e", "m", "i", "s", "t", "r", "y">>, <<
        <<"atomic structure", <<<<"a", "t", "o", "m">>,
            <<"e", "l", "e", "c", "t", "r", "o", "n">>,
            <<"p", "r", "o", "t", "o", "n">>,
            <<"n", "e", "u", "t", "r", "o", "n">>,
            <<"i", "s", "o", "t", "o", "p", "e">>>>>>,
        <<"bonding", <<<<"b", "o", "n", "d">>,
            <<"i", "o", "n", "i", "c">>,
            <<"c", "o", "v", "a", "l", "e", "n", "t">>,
            <<"m", "e", "t", "a", "l", "l", "i", "c">>>>>>,
        <<"reactions", <<<<"r", "e", "a", "c", "t", "i", "o", "n">>,
            <<"e", "q", "u", "a", "t", "i", "o", "n">>,
            <<"p", "r", "o", "d", "u", "c", "t">>,
            <<"r", "e", "a", "c", "t", "a", "n", "t">>>>>>,
        <<"acids and bases", <<<<"a", "c", "i", "d">>,
            <<"b", "a", "s", "e">>,
            <<"p", "h">>,
            <<"n", "e", "u", "t", "r", "a", "l", "i">>>>>>,
        <<"organic chemistry", <<<<"o", "r", "g", "a", "n", "i", "c">>,
            <<"h", "y", "d", "r", "o", "c", "a", "r", "b", "o", "n">>,
            <<"a", "l", "k", "a", "n", "e">>,
            <<"a", "l", "k", "e", "n", "e">>>>>>,
        <<"electrochemistry", <<<<"e", "l", "e", "c", "t", "r", "o", "l", "y", "s", "i", "s">>,
            <<"e", "l", "e", "c", "t", "r", "o", "d", "e">>,
            <<"e", "l", "e", "c", "t", "r", "o", "l", "y", "t", "e">>>>>>>>>>,
    <<<<"P", "h", "y", "s", "i", "c", "s">>, <<
        <<"mechanics", <<<<"f", "o", "r", "c", "e">>,
            <<"m", "o", "t", "i", "o", "n">>,
            <<"v", "e", "l", "o", "c", "i", "t", "y">>,
            <<"a", "c", "c", "e", "l", "e", "r", "a", "t", "i", "o", "n">>,
            <<"m", "o", "m", "e", "n", "t", "u", "m">>>>>>,
        <<"waves", <<<<"w", "a", "v", "e">>,
            <<"f", "r", "e", "q", "u", "e", "n", "c", "y">>,
            <<"w", "a", "v", "e", "l", "e", "n", "g", "t", "h">>,
            <<"s", "o", "u", "n", "d">>,
            <<"l", "i", "g", "h", "t">>>>>>,
        <<"electricity", <<<<"e", "l", "e", "c", "t", "r", "i", "c">>,
            <<"c", "u", "r", "r", "e", "n", "t">>,
            <<"v", "o", "l", "t", "a", "g", "e">>,
            <<"r", "e", "s", "i", "s", "t", "a", "n", "c", "e">>,
            <<"c", "i", "r", "c", "u", "i", "t">>>>>>,
        <<"magnetism", <<<<"m", "a", "g", "n", "e", "t">>,
            <<"m", "a", "g", "n", "e", "t", "i", "c", " ", "f", "i", "e", "l", "d">>,
            <<"e", "l", "e", "c", "t", "r", "o", "m", "a", "g", "n", "e", "t">>>>>>,
        <<"heat", <<<<"h", "e", "a", "t">>,
            <<"t", "e", "m", "p", "e", "r", "a", "t", "u", "r", "e">>,
            <<"t", "h", "e", "r", "m", "a", "l">>,
            <<"c", "o", "n", "d", "u", "c", "t", "i", "o", "n">>,
            <<"c", "o", "n", "v", "e", "c", "t", "i", "o", "n">>>>>>,
        <<"energy", <<<<"e", "n", "e", "r", "g", "y">>,
            <<"k", "i", "n", "e", "t", "i", "c">>,
            <<"p", "o", "t", "e", "n", "t", "i", "a", "l">>,
            <<"c", "o", "n", "s", "e", "r", "v", "a", "t", "i", "o", "n">>>>>>>>>>
>>

\* str.lower() of a text
LowerText(t) == Cat(<<>>, [k \in 1..Len(t) |-> [ch |-> Lower(t[k].ch), n |-> t[k].n]])

\* kw in t (the empty string occurs in every text)
TContains(kw, t) ==
    kw = <<>> \/ Occurrences(t, kw, 0, TLen(t)) # {}

\* the topics of subject subj that have a keyword in the text t, or no
\* topic at all when the subject has no keyword table (lines 306-311)
MatchedTopics(t, subj) ==
    LET text_lower == LowerText(t)
        rows == {k \in 1..Len(topic_keywords) : topic_keywords[k][1] = subj}
    IN  UNION { { tp[1] : tp \in {q \in {topic_keywords[k][2][j] :
                                            j \in 1..Len(topic_keywords[k][2])} :
                                    \E i \in 1..Len(q[2]) :
                                        TContains(q[2][i], text_lower)} } :
                k \in rows }

\* lines 261-313
detect_topics(t, subj) ==
    IF MatchedTopics(t, subj) # {} THEN MatchedTopics(t, subj) ELSE {"General"}

\* the orders list(topics) can give the topics in
Orderings(S) ==
    {f \in [1..Cardinality(S) -> S] : \A a, b \in 1..Cardinality(S) : f[a] = f[b] => a = b}

\* model.encode(chunk), left uninterpreted
Embed(chunk) == <<"embedding", TLen(chunk)>>

\* lines 347-357: one record per chunk and topic, chunk by chunk
MakeRecords(p, subj, ctype, cks, tl) ==
    [n \in 1..(Len(cks) * Len(tl)) |->
        LET i == (n - 1) \div Len(tl)
            j == ((n - 1) % Len(tl)) + 1
        IN  [subject |-> subj,
             topic |-> tl[j],
             subtopic |-> <<"Chunk", i + 1>>,
             content_type |-> ctype,
             content |-> cks[i + 1],
             metadata |-> [source |-> p.name, content_type |-> ctype,
                           chunk_index |-> i, total_chunks |-> Len(cks)],
             embedding |-> Embed(cks[i + 1])]]

\* lines 316-359, for the order tl of the detected topics; raised tells
\* that an exception left process_pdf
ProcessWith(ex, p, subj, ctype, tl) ==
    IF ex.raised THEN [raised |-> TRUE, records |-> <<>>]
    ELSE IF ex.text = <<>> THEN [raised |-> FALSE, records |-> <<>>]
    ELSE LET cks == chunk_text(ex.text, CHUNK_SIZE, CHUNK_OVERLAP)
         IN  IF cks = <<>> THEN [raised |-> FALSE, records |-> <<>>]
             ELSE IF p.encode = "raise" THEN [raised |-> TRUE, records |-> <<>>]
             ELSE [raised |-> FALSE,
                   records |-> MakeRecords(p, subj, ctype, cks, tl)]

TopicOrders(p, subj) ==
    LET ex == extract_text_from_pdf(p)
    IN  IF ex.raised \/ ex.text = <<>> THEN {<<>>}
        ELSE Orderings(detect_topics(ex.text, subj))

process_pdf(p, subj, ctype, tl) ==
    ProcessWith(extract_text_from_pdf(p), p, subj, ctype, tl)

\* Inputs of the process_pdf specification
X(n) == <<[ch |-> "x", n |-> n]>>
PageTexts == {
    <<>>,
    Str(<<" ", " ", "\n">>),
    X(30),
    X(80),
    X(1200),
    Cat(Str(<<"p", "H", " ", "7", " ">>), X(1200)),
    Cat(Cat(X(1200), Str(<<" ", "A", "t", "o", "m", "s", " ">>)), X(300)),
    Cat(Cat(Str(<<"i", "o", "n", "i", "c", " ", "b", "o", "n", "d", ".", " ">>),
            X(440)), Str(<<"?", " ", "a", "r", "e", "a", " ">>))
}
PageLists ==
    {<<>>} \cup {<<a>> : a \in PageTexts}
           \cup {<<X(30), X(30)>>, <<<<>>, X(1200)>>,
                 <<X(1200), Cat(Str(<<"p", "H", " ", "7", " ">>), X(1200))>>}
OcrLists == {<<>>, <<Str(<<" ", "\n">>)>>, <<X(40)>>, <<X(1200)>>}
Subjects ==
    {normalize_subject(n) : n \in {<<"c", "h", "e", "m">>, <<"m", "a", "t", "h", "s">>,
                                   <<"e", "c", "o", "n">>}}
Pdfs ==
    {[name |-> "paper.pdf", read |-> r, pages |-> pg, ocr |-> o, ocrPages |-> op,
      encode |-> e] :
        r \in {"ok", "raise"}, pg \in PageLists, o \in {"missing", "raises", "ok"},
        op \in OcrLists, e \in {"ok", "raise"}}

InitPdf ==
    /\ IdleChunk
    /\ IdleNorm
    /\ IdleMain
    /\ IdleUpsert
    /\ pdf \in {p \in Pdfs :
                  /\ (p.ocr # "ok") => (p.ocrPages = <<>>)
                  /\ (p.read = "raise") => (p.pages = <<>> /\ p.ocr = "missing")}
    /\ subject \in Subjects
    /\ content_type \in {"question", "syllabus"}
    /\ records = <<>>
    /\ pc = "call"

\* lines 316-359
ProcessPdfCall ==
    /\ pc = "call"
    /\ \E tl \in TopicOrders(pdf, subject) :
          LET res == process_pdf(pdf, subject, content_type, tl)
          IN  /\ records' = res.records
              /\ pc' = IF res.raised THEN "raised" ELSE "done"
    /\ UNCHANGED <<pdf, subject, content_type, chunkVars, normVars, mainVars, upVars>>

NextPdf == ProcessPdfCall

SpecPdf == InitPdf /\ [][NextPdf]_vars

AllBlank(pages) == \A k \in 1..Len(pages) : Strip(pages[k]) = <<>>

\* no text from the pages and no viable OCR, or a PDF that cannot be read
NoTextNoOcr(p) ==
    \/ p.read = "raise"
    \/ /\ AllBlank(p.pages)
       /\ p.ocr \in {"missing", "raises"} \/ AllBlank(p.ocrPages)

\* C6: process_pdf on a PDF whose pages give no text and for which OCR is not
\* viable (libraries missing, OCR raising, OCR reading no text), or whose
\* opening or reading raises, returns the empty list and raises nothing.
C6_NoTextNoRecords ==
    (pc # "call" /\ NoTextNoOcr(pdf)) => (pc = "done" /\ records = <<>>)

\* process_pdf returned for a blank PDF whose OCR attempt raised
C6_Witness ==
    /\ pc = "done"
    /\ pdf.read = "ok" /\ pdf.pages # <<>> /\ AllBlank(pdf.pages)
    /\ pdf.ocr = "raises"
    /\ records = <<>>

\* C9 as stated: the topic of every record process_pdf returns matches the
\* record's own chunk: it is a topic of the subject's table with a keyword in
\* the record's content, or it is 'General' exactly when the subject has no
\* table or no keyword of any topic occurs in the record's content.
C9_TopicMatchesChunk ==
    pc = "done" =>
        \A n \in 1..Len(records) :
            LET m == MatchedTopics(records[n].content, records[n].subject)
            IN  IF m = {} THEN records[n].topic = "General"
                ELSE records[n].topic \in m

---------------------------------------------------------------------------
(* upsert_records *)

\* records[i:i + BATCH_SIZE] holds the records i+1 .. BatchHi(i, n), counted from 1
BatchHiMut(i, n) == MinOf(i + BATCH_SIZE - 1, n)
BatchHi(i, n) == MinOf(i + BATCH_SIZE, n)

\* lines 378-383: the next batch insert, which succeeds or raises
UpsertBatch ==
    /\ pc = "upsert"
    /\ batch_i < Len(all_records)
    /\ LET hi == BatchHi(batch_i, Len(all_records))
       IN  \E ok \in BOOLEAN :
              /\ log' = Append(log, [kind |-> "batch", lo |-> batch_i + 1,
                                     hi |-> hi, ok |-> ok])
              /\ IF ok
                 THEN /\ table' = [table EXCEPT !.new = @ + (hi - batch_i)]
                      /\ batch_i' = batch_i + BATCH_SIZE
                      /\ pc' = "upsert"
                      /\ UNCHANGED single_j
                 ELSE /\ pc' = "fallback"
                      /\ single_j' = batch_i + 1
                      /\ UNCHANGED <<table, batch_i>>
    /\ UNCHANGED <<chunkVars, normVars, pdfVars, env, pdf_files, all_records,
                   idx, cleared, exit_code, summary>>

\* lines 385-389: the insert of one record of a failed batch, which
\* succeeds or raises; either way the loop goes on to the next record
UpsertSingle ==
    /\ pc = "fallback"
    /\ \E ok \in BOOLEAN :
          table' = IF ok THEN [table EXCEPT !.new = @ + 1] ELSE table
    /\ log' = Append(log, [kind |-> "single", lo |-> single_j, hi |-> single_j])
    /\ IF single_j >= BatchHi(batch_i, Len(all_records))
       THEN /\ pc' = "upsert"
            /\ batch_i' = batch_i + BATCH_SIZE
            /\ UNCHANGED single_j
       ELSE /\ single_j' = single_j + 1
            /\ UNCHANGED <<pc, batch_i>>
    /\ UNCHANGED <<chunkVars, normVars, pdfVars, env, pdf_files, all_records,
                   idx, cleared, exit_code, summary>>

\* lines 374-375 and the end of the loop of line 378
UpsertReturn ==
    /\ pc = "upsert"
    /\ batch_i >= Len(all_records)
    /\ pc' = "uploaded"
    /\ UNCHANGED <<chunkVars, normVars, pdfVars, mainVars, upVars>>

RecordCounts == {0, 1, 49, 50, 51, 100, 101}

InitUpsert ==
    /\ IdleChunk
    /\ IdleNorm
    /\ IdlePdf
    /\ env = [creds |-> TRUE] /\ table = [old |-> {}, new |-> 0]
    /\ pdf_files = <<>> /\ idx = 0 /\ cleared = "no"
    /\ exit_code = -1 /\ summary = <<>>
    /\ \E n \in RecordCounts : all_records = [k \in 1..n |-> [content |-> k]]
    /\ IdleUpsert
    /\ pc = "upsert"

NextUpsert == UpsertBatch \/ UpsertSingle \/ UpsertReturn

SpecUpsert == InitUpsert /\ [][NextUpsert]_vars

BatchEntries == SelectSeq(log, LAMBDA e : e.kind = "batch")

\* what the log must be, given the outcomes of the batch inserts bs: each
\* batch once, a failed one followed by its records one by one
RECURSIVE ExpectedLog(_, _)
ExpectedLog(bs, k) ==
    IF k > Len(bs) THEN <<>>
    ELSE <<bs[k]>>
         \o (IF bs[k].ok THEN <<>>
             ELSE [j \in 1..(bs[k].hi - bs[k].lo + 1) |->
                     [kind |-> "single", lo |-> bs[k].lo + j - 1,
                      hi |-> bs[k].lo + j - 1]])
         \o ExpectedLog(bs, k + 1)

\* C3: upsert_records submits every record in exactly one batch insert
\* (consecutive batches of at most BATCH_SIZE, in input order); the records
\* of a failed batch are each submitted singly exactly once, whatever the
\* outcome, and later batches still follow; the records of a batch that
\* succeeded are not submitted again; the call returns and never raises.
C3_BatchesAndFallback ==
    /\ pc \in {"upsert", "fallback", "uploaded"}
    /\ pc = "uploaded" =>
          LET bs == BatchEntries
              n == Len(all_records)
          IN  /\ Len(bs) = (n + BATCH_SIZE - 1) \div BATCH_SIZE
              /\ \A k \in 1..Len(bs) :
                    /\ bs[k].lo = BATCH_SIZE * (k - 1) + 1
                    /\ bs[k].hi = MinOf(BATCH_SIZE * k, n)
              /\ log = ExpectedLog(bs, 1)

\* 51 records: the first batch failed, some single insert failed too, and
\* the second batch was still submitted and went through
C3_Witness ==
    /\ pc = "uploaded"
    /\ Len(all_records) = 51
    /\ Len(BatchEntries) = 2
    /\ ~BatchEntries[1].ok /\ BatchEntries[2].ok
    /\ table.new = 50

---------------------------------------------------------------------------
(* main *)

NIL_ID == "00000000-0000-0000-0000-000000000000"

\* line 366: the rows that survive delete().neq('id', NIL_ID)
DeleteRowsMut(rows) == rows \ {NIL_ID}
DeleteRows(rows) == rows \cap {NIL_ID}

\* lines 437-443: whether the run calls clear_existing_content
ClearWanted(argv, isatty, response) ==
    IF "--clear" \in argv THEN TRUE
    ELSE IF "--no-clear" \notin argv /\ isatty
         THEN FLower(FStrip(response)) = <<"y">>
         ELSE FALSE

\* lines 413-417 and 420-424: the PDFs below one root, folder by folder
RECURSIVE CollectRoot(_, _, _)
CollectRoot(dirs, k, ctype) ==
    IF k > Len(dirs) THEN <<>>
    ELSE (IF dirs[k].is_dir
          THEN [j \in 1..Len(dirs[k].pdfs) |->
                   [pdf |-> dirs[k].pdfs[j],
                    subject |-> normalize_subject(dirs[k].name),
                    content_type |-> ctype]]
          ELSE <<>>)
         \o CollectRoot(dirs, k + 1, ctype)

\* lines 410-424
CollectPdfFiles(data) ==
    (IF data.past.exists THEN CollectRoot(data.past.dirs, 1, "question") ELSE <<>>)
    \o (IF data.syllabi.exists THEN CollectRoot(data.syllabi.dirs, 1, "syllabus")
        ELSE <<>>)

\* the process ends with the given exit code
Exit(code) == pc' = "exit" /\ exit_code' = code

\* line 401, get_supabase_client (lines 112-122)
GetClient ==
    /\ pc = "start"
    /\ IF env.creds
       THEN pc' = "load" /\ UNCHANGED exit_code
       ELSE Exit(1)
    /\ UNCHANGED <<chunkVars, normVars, pdfVars, env, table, pdf_files,
                   all_records, idx, cleared, summary, upVars>>

\* line 402, load_embedding_model: an exception of the library ends the run
LoadModel ==
    /\ pc = "load"
    /\ IF env.model = "ok"
       THEN pc' = "collect" /\ UNCHANGED exit_code
       ELSE Exit(1)
    /\ UNCHANGED <<chunkVars, normVars, pdfVars, env, table, pdf_files,
                   all_records, idx, cleared, summary, upVars>>

\* lines 404-434
CollectPdfs ==
    /\ pc = "collect"
    /\ pdf_files' = CollectPdfFiles(env.data)
    /\ IF pdf_files' = <<>>
       THEN Exit(1)
       ELSE pc' = "clear" /\ UNCHANGED exit_code
    /\ UNCHANGED <<chunkVars, normVars, pdfVars, env, table, all_records, idx,
                   cleared, summary, upVars>>

\* lines 436-447 with clear_existing_content (lines 362-369) without its
\* try/except: a failed delete ends the run
ClearStepNoCatch ==
    /\ pc = "clear"
    /\ IF ClearWanted(env.argv, env.isatty, env.response)
       THEN \E ok \in BOOLEAN :
               IF ok
               THEN /\ table' = [old |-> DeleteRows(table.old), new |-> 0]
                    /\ cleared' = "ok"
                    /\ pc' = "process" /\ UNCHANGED exit_code
               ELSE /\ cleared' = "failed"
                    /\ Exit(1)
                    /\ UNCHANGED table
       ELSE /\ pc' = "process"
            /\ UNCHANGED <<table, cleared, exit_code>>
    /\ all_records' = <<>>
    /\ idx' = 0
    /\ UNCHANGED <<chunkVars, normVars, pdfVars, env, pdf_files, summary, upVars>>

\* lines 436-447 with clear_existing_content (lines 362-369): the delete
\* succeeds, or raises and is answered with a warning
ClearStep ==
    /\ pc = "clear"
    /\ IF ClearWanted(env.argv, env.isatty, env.response)
       THEN \E ok \in BOOLEAN :
               IF ok
               THEN /\ table' = [old |-> DeleteRows(table.old), new |-> 0]
                    /\ cleared' = "ok"
               ELSE /\ cleared' = "failed"
                    /\ UNCHANGED table
       ELSE UNCHANGED <<table, cleared>>
    /\ all_records' = <<>>
    /\ idx' = 0
    /\ pc' = "process"
    /\ UNCHANGED <<chunkVars, normVars, pdfVars, env, pdf_files, exit_code,
                   summary, upVars>>

\* lines 450-454: one pass of the loop over pdf_files; an exception that
\* leaves process_pdf ends the run
ProcessNext ==
    /\ pc = "process"
    /\ idx < Len(pdf_files)
    /\ LET f == pdf_files[idx + 1]
       IN  /\ pdf' = f.pdf
           /\ subject' = f.subject
           /\ content_type' = f.content_type
           /\ \E tl \in TopicOrders(f.pdf, f.subject) :
                 LET res == process_pdf(f.pdf, f.subject, f.content_type, tl)
                 IN  IF res.raised
                     THEN /\ Exit(1)
                          /\ UNCHANGED <<records, all_records, idx>>
                     ELSE /\ records' = res.records
                          /\ all_records' = all_records \o res.records
                          /\ idx' = idx + 1
                          /\ UNCHANGED <<pc, exit_code>>
    /\ UNCHANGED <<chunkVars, normVars, env, table, pdf_files, cleared, summary,
                   upVars>>

\* lines 456-460: the call of upsert_records
StartUpload ==
    /\ pc = "process"
    /\ idx = Len(pdf_files)
    /\ pc' = "upsert"
    /\ batch_i' = 0
    /\ UNCHANGED <<chunkVars, normVars, pdfVars, mainVars, single_j, log>>

\* lines 462-473
Summary ==
    /\ pc = "uploaded"
    /\ summary' = <<Len(pdf_files), Len(all_records)>>
    /\ Exit(0)
    /\ UNCHANGED <<chunkVars, normVars, pdfVars, env, table, pdf_files,
                   all_records, idx, cleared, upVars>>

\* Inputs of main
MkPdf(name, read, pages, ocr, encode) ==
    [name |-> name, read |-> read, pages |-> pages, ocr |-> ocr,
     ocrPages |-> <<>>, encode |-> encode]
pText == MkPdf("2019_p2.pdf", "ok",
               <<Cat(Str(<<"p", "H", " ", "7", " ">>), X(1200))>>, "missing", "ok")
pBlank == MkPdf("scan.pdf", "ok", <<Str(<<" ", "\n">>)>>, "missing", "ok")
pBroken == MkPdf("broken.pdf", "raise", <<>>, "missing", "ok")
pNoEmbed == MkPdf("big.pdf", "ok", <<X(600)>>, "raises", "raise")
MkDir(name, is_dir, pdfs) == [name |-> name, is_dir |-> is_dir, pdfs |-> pdfs]
dChem == MkDir(<<"c", "h", "e", "m">>, TRUE, <<pText>>)
dBio == MkDir(<<"B", "i", "o", "_", "l", "o", "g", "y">>, TRUE, <<pBlank, pBroken, pText>>)
dScans == MkDir(<<"h", "s", "b">>, TRUE, <<pBlank, pBroken>>)
dMaths == MkDir(<<"m", "a", "t", "h", "s">>, TRUE, <<pNoEmbed, pText>>)
dEmpty == MkDir(<<"i", "t">>, TRUE, <<>>)
dFile == MkDir(<<"n", "o", "t", "e", "s">>, FALSE, <<>>)
Root(dirs) == [exists |-> TRUE, dirs |-> dirs]
NoRoot == [exists |-> FALSE, dirs |-> <<>>]
PastRoots == {NoRoot, Root(<<>>), Root(<<dChem>>), Root(<<dBio>>), Root(<<dScans>>),
              Root(<<dMaths>>), Root(<<dFile, dEmpty>>), Root(<<dFile, dChem>>)}
SyllabiRoots == {NoRoot, Root(<<dChem>>)}
Responses == {<<>>, <<"y">>, <<"Y", " ">>, <<"n">>}
OldRowSets == {{}, {"row-1"}, {NIL_ID, "row-1"}}
DefaultEnv ==
    [creds |-> TRUE, model |-> "ok", argv |-> {}, isatty |-> FALSE,
     response |-> <<>>, data |-> [past |-> NoRoot, syllabi |-> NoRoot],
     old_rows |-> {}]
Envs ==
    {[DefaultEnv EXCEPT !.creds = FALSE], [DefaultEnv EXCEPT !.model = "raise"]}
    \cup
    {[DefaultEnv EXCEPT !.argv = a, !.isatty = t, !.response = r,
                        !.data = [past |-> p, syllabi |-> sy], !.old_rows = o] :
        a \in SUBSET {"--clear", "--no-clear"}, t \in BOOLEAN, r \in Responses,
        p \in PastRoots, sy \in SyllabiRoots, o \in OldRowSets}

InitMain ==
    /\ IdleChunk
    /\ IdleNorm
    /\ IdlePdf
    /\ IdleUpsert
    /\ env \in {e \in Envs :
                  /\ (e.argv # {}) => ~e.isatty
                  /\ (~e.isatty) => (e.response = <<>>)}
    /\ table = [old |-> env.old_rows, new |-> 0]
    /\ pdf_files = <<>> /\ all_records = <<>> /\ idx = 0 /\ cleared = "no"
    /\ exit_code = -1 /\ summary = <<>>
    /\ pc = "start"

NextMain ==
    \/ GetClient \/ LoadModel \/ CollectPdfs \/ ClearStep \/ ProcessNext
    \/ StartUpload \/ UpsertBatch \/ UpsertSingle \/ UpsertReturn \/ Summary

SpecMain == InitMain /\ [][NextMain]_vars

\* an embedding call of this run raises
EncodeRaises(files) ==
    \E k \in 1..Len(files) :
        /\ files[k].pdf.encode = "raise"
        /\ chunk_text(extract_text_from_pdf(files[k].pdf).text,
                      CHUNK_SIZE, CHUNK_OVERLAP) # <<>>

\* the run has its credentials, its embedding model and at least one PDF
Equipped ==
    /\ env.creds
    /\ env.model = "ok"
    /\ CollectPdfFiles(env.data) # <<>>
    /\ ~EncodeRaises(CollectPdfFiles(env.data))

\* the run has not ended and its next step can be taken
CanStep ==
    \/ pc \in {"start", "load", "collect", "clear", "upsert", "uploaded"}
    \/ pc = "process" /\ idx <= Len(pdf_files)
    \/ pc = "fallback" /\ batch_i < single_j /\ single_j <= Len(all_records)

C5_Original ==
    ("--clear" \in env.argv /\ log # <<>>) => table.old = {}

\* C5 as amended: in a run started with --clear the bulk delete is attempted
\* before the first insert; if it succeeds, no row from before the run is left
\* when the first insert is submitted, except a row whose id is the nil UUID,
\* which the filter of the delete spares; if it fails, the run goes on and
\* inserts next to the old rows.
C5_Amended ==
    ("--clear" \in env.argv /\ (log # <<>> \/ pc \in {"process", "upsert", "fallback", "uploaded"})) =>
        /\ cleared # "no"
        /\ cleared = "ok" => table.old = env.old_rows \cap {NIL_ID}
        /\ cleared = "failed" => table.old = env.old_rows

\* a --clear run that inserted records into a table it had emptied
C5_Witness ==
    /\ "--clear" \in env.argv
    /\ env.old_rows = {"row-1"}
    /\ cleared = "ok"
    /\ table = [old |-> {}, new |-> Len(all_records)]
    /\ table.new > 0

====
